---- MODULE Spec2Model ----
(***************************************************************************)
(* Present/absent reconciliation of the eda_configuration modules          *)
(* rulebook_activation and user against the EDA controller's REST          *)
(* collections.  Every action is one blocking backend call of main()       *)
(* together with the local computation that follows it up to the next      *)
(* call, so that two invocations can interleave between calls.             *)
(***************************************************************************)
EXTENDS Integers, Sequences, FiniteSets, TLC

VARIABLES
    module,        \* which plugin module is being run: "rulebook_activation" or "user"
    activations,   \* backend collection "activations"
    extra_vars,    \* backend collection "extra-vars"
    users,         \* backend collection "users"
    nextId,        \* next identifier the backend hands out
    invCount,      \* number of invocations started so far
    pc,            \* per invocation: position in main()
    params,        \* per invocation: module.params
    existing_item, \* per invocation: {} (None) or {item}
    new_fields,    \* per invocation: the dict new_fields
    result,        \* per invocation: exit_json / fail_json outcome
    calls,         \* per invocation: backend calls issued, in order
    snap,          \* per invocation: backend contents when the invocation started
    prev,          \* per invocation slot: outcome of the invocation that ran before
    same           \* per invocation slot: params equal those of the previous invocation

vars == <<module, activations, extra_vars, users, nextId, invCount, pc, params,
          existing_item, new_fields, result, calls, snap, prev, same>>

backend == <<activations, extra_vars, users>>
local == <<pc, params, existing_item, new_fields, result, calls, snap, prev, same>>

----------------------------------------------------------------------------
(* Bounds *)

MaxInv == 3

Procs == {1, 2}
SeqProcs == {1}

NoVal == "None"

----------------------------------------------------------------------------
(* Read-only collections of the controller used for name resolution.       *)

Projects ==
    { [id |-> 1, name |-> "p1"], [id |-> 2, name |-> "p2"],
      [id |-> 3, name |-> "pdup"], [id |-> 4, name |-> "pdup"] }

DecisionEnvironments ==
    { [id |-> 1, name |-> "de"],
      [id |-> 2, name |-> "dedup"], [id |-> 3, name |-> "dedup"] }

Rulebooks ==
    { [id |-> 1, name |-> "rb", project_id |-> 1],
      [id |-> 2, name |-> "rb", project_id |-> 2],
      [id |-> 3, name |-> "rbamb", project_id |-> 1],
      [id |-> 4, name |-> "rbamb", project_id |-> 1] }

\* json.results of GET roles, in the order the controller returns them
SystemRoles ==
    << [id |-> 1, name |-> "A"], [id |-> 2, name |-> "B"],
       [id |-> 3, name |-> "D"], [id |-> 4, name |-> "D"] >>

----------------------------------------------------------------------------
(* Generic helpers: python dicts and lists *)

EmptyDict == [x \in {} |-> 0]

Put(d, k, v) == [x \in (DOMAIN d) \cup {k} |-> IF x = k THEN v ELSE d[x]]

Has(d, k) == k \in DOMAIN d

Range(s) == {s[i] : i \in 1..Len(s)}

RECURSIVE InsertSorted(_, _)
InsertSorted(s, x) ==
    IF s = <<>> THEN <<x>>
    ELSE IF x <= Head(s) THEN <<x>> \o s
    ELSE <<Head(s)>> \o InsertSorted(Tail(s), x)

RECURSIVE sort(_)
sort(s) == IF s = <<>> THEN <<>> ELSE InsertSorted(sort(Tail(s)), Head(s))

----------------------------------------------------------------------------
(* EDAModule helpers (module_utils/eda_module.py), as the specification    *)
(* describes the resolver and the transport client.                        *)

\* Result of a lookup that must yield one object
Found(item) == [ok |-> TRUE, item |-> {item}, err |-> ""]
NotFound == [ok |-> FALSE, item |-> {}, err |-> "not_found"]
Ambiguous == [ok |-> FALSE, item |-> {}, err |-> "ambiguous"]

\* Objects of a collection whose name is name_or_id and that carry every
\* field of the search filter data
Matches(collection, name_or_id, data) ==
    { o \in collection :
        /\ o.name = name_or_id
        /\ \A k \in DOMAIN data : o[k] = data[k] }

\* get_one: None when nothing matches, the object when one matches,
\* failure when several match
get_one(collection, name_or_id, data) ==
    LET m == Matches(collection, name_or_id, data) IN
    IF m = {} THEN [ok |-> TRUE, item |-> {}, err |-> ""]
    ELSE IF Cardinality(m) = 1 THEN Found(CHOOSE o \in m : TRUE)
    ELSE Ambiguous

\* get_exactly_one: get_one with allow_none=False
get_exactly_one(collection, name_or_id, data) ==
    LET m == Matches(collection, name_or_id, data) IN
    IF m = {} THEN NotFound
    ELSE IF Cardinality(m) = 1 THEN Found(CHOOSE o \in m : TRUE)
    ELSE Ambiguous

\* resolve_name_to_id: the identifier of the one object named name_or_id
resolve_name_to_id(collection, name_or_id) ==
    get_exactly_one(collection, name_or_id, EmptyDict)

TheItem(s) == CHOOSE o \in s : TRUE

\* does a create/update with this key violate the collection's key uniqueness
Conflict(collection, keyField, key, selfId) ==
    \E o \in collection : o[keyField] = key /\ o.id # selfId

\* objects_could_be_different: some submitted field differs from the
\* existing item's value of that field
NeedsPatch(existing, new_item) ==
    \E f \in DOMAIN new_item : existing[f] # new_item[f]

----------------------------------------------------------------------------
(* Call log *)

Call(op, endpoint, id, data, ok) ==
    [op |-> op, endpoint |-> endpoint, id |-> id, data |-> data, ok |-> ok]

IsMutating(c) == c.op \in {"POST", "PATCH", "DELETE"}

Mutating(log) == SelectSeq(log, IsMutating)

NoResult == [changed |-> FALSE, failed |-> FALSE, warned |-> FALSE, msg |-> ""]

exit_json(r, changed) == [r EXCEPT !.changed = changed]
fail_json(r, msg) == [r EXCEPT !.failed = TRUE, !.msg = msg]

----------------------------------------------------------------------------
(* Invocation parameters (argument_spec) *)

Upd(f, p, v) == [f EXCEPT ![p] = v]

\* (project, decision_environment, rulebook) names an invocation may give
RefCases ==
    { <<"p1", "de", "rb">>, <<"p2", "de", "rb">>,
      <<"missing", "de", "rb">>, <<"pdup", "de", "rb">>,
      <<"p1", "missing", "rb">>, <<"p1", "dedup", "rb">>,
      <<"p1", "de", "missing">>, <<"p1", "de", "rbamb">> }

ActivationParams ==
    { [name |-> n, new_name |-> nn, description |-> NoVal,
       project |-> rc[1], decision_environment |-> rc[2], rulebook |-> rc[3],
       restart_policy |-> "always", is_enabled |-> "True",
       variables |-> v, state |-> "present"] :
         n \in {"a1", "a2"}, nn \in {NoVal, "a2"}, rc \in RefCases,
         v \in {NoVal, "v"} }
    \cup
    { [name |-> n, new_name |-> NoVal, description |-> NoVal,
       project |-> "p1", decision_environment |-> "de", rulebook |-> "rb",
       restart_policy |-> "always", is_enabled |-> "True",
       variables |-> NoVal, state |-> "absent"] : n \in {"a1", "a2"} }

RoleLists ==
    { <<>>, <<"A">>, <<"A", "B">>, <<"B", "A">>, <<"missing">>, <<"D">> }

UserParams ==
    { [username |-> u, new_username |-> nu, first_name |-> fn, last_name |-> NoVal,
       roles |-> rl, password |-> "pw", is_superuser |-> "False",
       state |-> "present"] :
         u \in {"u1", "u2"}, nu \in {NoVal, "u2"}, fn \in {NoVal, "f"},
         rl \in RoleLists }
    \cup
    { [username |-> u, new_username |-> NoVal, first_name |-> NoVal, last_name |-> NoVal,
       roles |-> <<>>, password |-> "pw", is_superuser |-> "False",
       state |-> "absent"] : u \in {"u1", "u2"} }

NoParams == [state |-> "idle"]
NoPrev == [valid |-> FALSE, changed |-> FALSE, failed |-> FALSE, fresh |-> FALSE]

\* the desired key of an invocation
KeyOf(prm) == IF "username" \in DOMAIN prm THEN prm.username ELSE prm.name

\* no resource with the invocation's key in backend contents b
KeyAbsent(b, prm) ==
    IF "username" \in DOMAIN prm
    THEN \A u \in b[3] : u.username # prm.username
    ELSE \A a \in b[1] : a.name # prm.name

----------------------------------------------------------------------------
(* Initial state: an empty controller, no invocation running *)

Init ==
    /\ module \in {"rulebook_activation", "user"}
    /\ activations = {}
    /\ extra_vars = {}
    /\ users = {}
    /\ nextId = 1
    /\ invCount = 0
    /\ pc = [p \in Procs |-> "idle"]
    /\ params = [p \in Procs |-> NoParams]
    /\ existing_item = [p \in Procs |-> {}]
    /\ new_fields = [p \in Procs |-> EmptyDict]
    /\ result = [p \in Procs |-> NoResult]
    /\ calls = [p \in Procs |-> <<>>]
    /\ snap = [p \in Procs |-> <<{}, {}, {}>>]
    /\ prev = [p \in Procs |-> NoPrev]
    /\ same = [p \in Procs |-> FALSE]

\* Start, were the module to wait until no other invocation is in flight
StartExclusive(p, prm) ==
    /\ \A q \in Procs : pc[q] \in {"idle", "done"}
    /\ invCount < MaxInv
    /\ invCount' = invCount + 1
    /\ pc' = Upd(pc, p, IF module = "user" THEN "user_lookup" ELSE "act_lookup")
    /\ params' = Upd(params, p, prm)
    /\ existing_item' = Upd(existing_item, p, {})
    /\ new_fields' = Upd(new_fields, p, EmptyDict)
    /\ result' = Upd(result, p, NoResult)
    /\ calls' = Upd(calls, p, <<>>)
    /\ snap' = Upd(snap, p, backend)
    /\ prev' = Upd(prev, p,
                 IF pc[p] = "done"
                 THEN [valid |-> TRUE, changed |-> result[p].changed,
                       failed |-> result[p].failed,
                       fresh |-> KeyAbsent(snap[p], params[p])]
                 ELSE NoPrev)
    /\ same' = Upd(same, p, prm = params[p])
    /\ UNCHANGED <<module, activations, extra_vars, users, nextId>>

\* EDAModule(argument_spec=...): a new run of the module with parameters prm
Start(p, prm) ==
    /\ pc[p] \in {"idle", "done"}
    /\ invCount < MaxInv
    /\ invCount' = invCount + 1
    /\ pc' = Upd(pc, p, IF module = "user" THEN "user_lookup" ELSE "act_lookup")
    /\ params' = Upd(params, p, prm)
    /\ existing_item' = Upd(existing_item, p, {})
    /\ new_fields' = Upd(new_fields, p, EmptyDict)
    /\ result' = Upd(result, p, NoResult)
    /\ calls' = Upd(calls, p, <<>>)
    /\ snap' = Upd(snap, p, backend)
    /\ prev' = Upd(prev, p,
                 IF pc[p] = "done"
                 THEN [valid |-> TRUE, changed |-> result[p].changed,
                       failed |-> result[p].failed,
                       fresh |-> KeyAbsent(snap[p], params[p])]
                 ELSE NoPrev)
    /\ same' = Upd(same, p, prm = params[p])
    /\ UNCHANGED <<module, activations, extra_vars, users, nextId>>

----------------------------------------------------------------------------
(* rulebook_activation.py main() *)

Log(p, c) == Upd(calls, p, Append(calls[p], c))

\* SubmittedName, were new_name ignored
SubmittedNameKeep(new_name, existing, name) ==
    IF existing # {} THEN TheItem(existing).name ELSE name

\* new_fields["name"] (line 145)
SubmittedName(new_name, existing, name) ==
    IF new_name # NoVal /\ new_name # ""
    THEN new_name
    ELSE IF existing # {} THEN TheItem(existing).name ELSE name

\* the scalar fields copied into new_fields when they are not None
CopyFields(d, prm, fields) ==
    [x \in (DOMAIN d) \cup {f \in fields : prm[f] # NoVal} |->
        IF x \in fields /\ prm[x] # NoVal THEN prm[x] ELSE d[x]]

\* RulebookSearchArgs, were the project filter left out
RulebookSearchArgsNone(nf) == EmptyDict

\* search_args of the rulebook lookup (lines 164-165)
RulebookSearchArgs(nf) == Put(EmptyDict, "project_id", nf["project_id"])

\* the record the backend stores for a created activation
ActivationDefaults ==
    [description |-> "", restart_policy |-> "always", is_enabled |-> "True",
     extra_var_id |-> 0]

Merge(defaults, fields) ==
    [x \in (DOMAIN defaults) \cup (DOMAIN fields) |->
        IF x \in DOMAIN fields THEN fields[x] ELSE defaults[x]]

\* AfterResolve, were the existing activation kept
AfterResolveKeep(existing, variables) ==
    IF variables # NoVal THEN "act_extra_vars" ELSE "act_create"

\* where main() goes once every reference is resolved (lines 174-192)
AfterResolve(existing, variables) ==
    IF existing # {} THEN "act_recreate_delete"
    ELSE IF variables # NoVal THEN "act_extra_vars"
    ELSE "act_create"

\* lines 136-153: look the activation up, leave for state=absent, start new_fields
ActLookup(p) ==
    /\ pc[p] = "act_lookup"
    /\ LET r == get_one(activations, params[p].name, EmptyDict) IN
       /\ calls' = Log(p, Call("GET", "activations", 0,
                               Put(EmptyDict, "name", params[p].name), r.ok))
       /\ IF ~r.ok
          THEN /\ result' = Upd(result, p, fail_json(result[p], r.err))
               /\ pc' = Upd(pc, p, "done")
               /\ UNCHANGED <<existing_item, new_fields>>
          ELSE /\ existing_item' = Upd(existing_item, p, r.item)
               /\ IF params[p].state = "absent"
                  THEN /\ pc' = Upd(pc, p, IF r.item = {} THEN "done"
                                           ELSE "act_absent_delete")
                       /\ result' = Upd(result, p, exit_json(result[p], FALSE))
                       /\ UNCHANGED new_fields
                  ELSE /\ pc' = Upd(pc, p, "act_project")
                       /\ new_fields' = Upd(new_fields, p,
                            CopyFields(
                              Put(EmptyDict, "name",
                                  SubmittedName(params[p].new_name, r.item,
                                                params[p].name)),
                              params[p],
                              {"description", "restart_policy", "is_enabled"}))
                       /\ UNCHANGED result
    /\ UNCHANGED <<module, activations, extra_vars, users, nextId, invCount,
                   params, snap, prev, same>>

\* delete_if_needed: DELETE the existing item; a vanished item is an error
DeleteActivation(p, nextpc, exits) ==
    LET item == TheItem(existing_item[p])
        there == \E a \in activations : a.id = item.id IN
    /\ calls' = Log(p, Call("DELETE", "activations", item.id, EmptyDict, there))
    /\ IF there
       THEN /\ activations' = {a \in activations : a.id # item.id}
            /\ pc' = Upd(pc, p, nextpc)
            /\ result' = Upd(result, p,
                             IF exits THEN exit_json(result[p], TRUE) ELSE result[p])
       ELSE /\ UNCHANGED activations
            /\ pc' = Upd(pc, p, "done")
            /\ result' = Upd(result, p, fail_json(result[p], "delete_failed"))

\* line 140: state=absent and the activation exists
ActAbsentDelete(p) ==
    /\ pc[p] = "act_absent_delete"
    /\ DeleteActivation(p, "done", TRUE)
    /\ UNCHANGED <<module, extra_vars, users, nextId, invCount, params,
                   existing_item, new_fields, snap, prev, same>>

\* a failed or successful resolution step of main()
ResolveStep(p, endpoint, filter, r, field, nextpc) ==
    /\ calls' = Log(p, Call("GET", endpoint, IF r.ok THEN TheItem(r.item).id ELSE 0,
                            filter, r.ok))
    /\ IF r.ok
       THEN /\ new_fields' = Upd(new_fields, p,
                                 Put(new_fields[p], field, TheItem(r.item).id))
            /\ pc' = Upd(pc, p, nextpc)
            /\ UNCHANGED result
       ELSE /\ result' = Upd(result, p, fail_json(result[p], r.err))
            /\ pc' = Upd(pc, p, "done")
            /\ UNCHANGED new_fields

\* lines 155-156
ActResolveProject(p) ==
    /\ pc[p] = "act_project"
    /\ ResolveStep(p, "projects", Put(EmptyDict, "name", params[p].project),
                   resolve_name_to_id(Projects, params[p].project),
                   "project_id", "act_de")
    /\ UNCHANGED <<module, activations, extra_vars, users, nextId, invCount,
                   params, existing_item, snap, prev, same>>

\* lines 157-158
ActResolveDecisionEnvironment(p) ==
    /\ pc[p] = "act_de"
    /\ ResolveStep(p, "decision-environments",
                   Put(EmptyDict, "name", params[p].decision_environment),
                   resolve_name_to_id(DecisionEnvironments,
                                      params[p].decision_environment),
                   "decision_environment_id", "act_rulebook")
    /\ UNCHANGED <<module, activations, extra_vars, users, nextId, invCount,
                   params, existing_item, snap, prev, same>>

\* lines 163-181: the rulebook lookup scoped to the project, then the warning
ActResolveRulebook(p) ==
    /\ pc[p] = "act_rulebook"
    /\ LET search_args == RulebookSearchArgs(new_fields[p])
           r == get_exactly_one(Rulebooks, params[p].rulebook, search_args) IN
       /\ calls' = Log(p, Call("GET", "rulebooks",
                               IF r.ok THEN TheItem(r.item).id ELSE 0,
                               Put(search_args, "name", params[p].rulebook), r.ok))
       /\ IF r.ok
          THEN /\ new_fields' = Upd(new_fields, p,
                     Put(new_fields[p], "rulebook_id", TheItem(r.item).id))
               /\ pc' = Upd(pc, p, AfterResolve(existing_item[p], params[p].variables))
               /\ result' = Upd(result, p,
                     [result[p] EXCEPT !.warned = (existing_item[p] # {})])
          ELSE /\ result' = Upd(result, p, fail_json(result[p], r.err))
               /\ pc' = Upd(pc, p, "done")
               /\ UNCHANGED new_fields
    /\ UNCHANGED <<module, activations, extra_vars, users, nextId, invCount,
                   params, existing_item, snap, prev, same>>

\* lines 180-181: remove the existing activation, then existing_item = None;
\* a failed delete leaves main() inside delete_if_needed, before line 181
ActRecreateDelete(p) ==
    /\ pc[p] = "act_recreate_delete"
    /\ DeleteActivation(p, AfterResolve({}, params[p].variables), FALSE)
    /\ existing_item' =
          IF \E a \in activations : a.id = TheItem(existing_item[p]).id
          THEN Upd(existing_item, p, {})
          ELSE existing_item
    /\ UNCHANGED <<module, extra_vars, users, nextId, invCount, params,
                   new_fields, snap, prev, same>>

\* ExtraVarId, were another identifier than the new item's taken
ExtraVarIdStale(new_item) == new_item.id - 1

\* new_fields["extra_var_id"] = new_item["id"] (line 189)
ExtraVarId(new_item) == new_item.id

\* lines 185-189: store the variables in the extra-vars collection
ActCreateExtraVars(p) ==
    /\ pc[p] = "act_extra_vars"
    /\ LET new_vars == Put(EmptyDict, "extra_var", params[p].variables)
           new_item == Put(new_vars, "id", nextId) IN
       /\ extra_vars' = extra_vars \cup {new_item}
       /\ calls' = Log(p, Call("POST", "extra-vars", nextId, new_vars, TRUE))
       /\ new_fields' = Upd(new_fields, p,
                            Put(new_fields[p], "extra_var_id", ExtraVarId(new_item)))
    /\ nextId' = nextId + 1
    /\ pc' = Upd(pc, p, "act_create")
    /\ UNCHANGED <<module, activations, users, invCount, params, existing_item,
                   result, snap, prev, same>>

\* lines 192-198: create_or_update_if_needed with existing_item None
ActCreate(p) ==
    /\ pc[p] = "act_create"
    /\ LET clash == Conflict(activations, "name", new_fields[p]["name"], 0) IN
       /\ calls' = Log(p, Call("POST", "activations", IF clash THEN 0 ELSE nextId,
                               new_fields[p], ~clash))
       /\ IF clash
          THEN /\ result' = Upd(result, p, fail_json(result[p], "conflict"))
               /\ UNCHANGED <<activations, nextId>>
          ELSE /\ activations' = activations \cup
                     {Put(Merge(ActivationDefaults, new_fields[p]), "id", nextId)}
               /\ nextId' = nextId + 1
               /\ result' = Upd(result, p, exit_json(result[p], TRUE))
    /\ pc' = Upd(pc, p, "done")
    /\ UNCHANGED <<module, extra_vars, users, invCount, params, existing_item,
                   new_fields, snap, prev, same>>

----------------------------------------------------------------------------
(* user.py main() *)

\* FindUser, were the scan never to match
FindUserNone(all_users, username) == {}

\* lines 126-131: scan every user for the username; a later match replaces
\* an earlier one (results come ordered by id)
FindUser(all_users, username) ==
    LET m == {u \in all_users : u.username = username} IN
    IF m = {} THEN {} ELSE {CHOOSE u \in m : \A v \in m : v.id <= u.id}

\* new_fields["username"] (line 140)
SubmittedUsername(new_username, existing, username) ==
    IF new_username # NoVal /\ new_username # ""
    THEN new_username
    ELSE IF existing # {} THEN TheItem(existing).username ELSE username

\* lines 157-160: the last system role named role_name, None when there is none
FindRole(system_roles, role_name) ==
    LET idx == {i \in 1..Len(system_roles) : system_roles[i].name = role_name} IN
    IF idx = {} THEN {}
    ELSE {system_roles[CHOOSE i \in idx : \A j \in idx : j <= i]}

\* SubmittedRoles, were a missing role skipped instead of failing
RECURSIVE SubmittedRolesSkip(_, _)
SubmittedRolesSkip(system_roles, selected_roles) ==
    IF selected_roles = <<>> THEN [ok |-> TRUE, ids |-> <<>>]
    ELSE LET find_role == FindRole(system_roles, Head(selected_roles))
             rest == SubmittedRolesSkip(system_roles, Tail(selected_roles)) IN
         IF find_role = {} THEN rest
         ELSE [ok |-> TRUE, ids |-> <<TheItem(find_role).id>> \o rest.ids]

\* lines 153-165: the ids of the selected roles, or failure at a missing one
RECURSIVE SubmittedRoles(_, _)
SubmittedRoles(system_roles, selected_roles) ==
    IF selected_roles = <<>> THEN [ok |-> TRUE, ids |-> <<>>]
    ELSE LET find_role == FindRole(system_roles, Head(selected_roles))
             rest == SubmittedRoles(system_roles, Tail(selected_roles)) IN
         IF find_role = {} \/ ~rest.ok THEN [ok |-> FALSE, ids |-> <<>>]
         ELSE [ok |-> TRUE, ids |-> <<TheItem(find_role).id>> \o rest.ids]

\* lines 172-173: the ids of the role objects of the existing user
FlattenRoles(role_objects) ==
    [i \in 1..Len(role_objects) |-> role_objects[i].id]

\* SortRoles, were the lists left in the order they came
SortRolesNone(ids) == ids

\* the sort applied to both role lists (lines 176-177)
SortRoles(ids) == sort(ids)

\* lines 170-178: existing_item with its roles flattened and sorted
NormalizeExisting(existing) ==
    IF existing = {} THEN {}
    ELSE {[TheItem(existing) EXCEPT
              !.roles = SortRoles(FlattenRoles(TheItem(existing).roles))]}

\* NormalizeSubmitted, were only the existing roles sorted
NormalizeSubmittedUnsorted(existing, submitted_roles) == submitted_roles

\* lines 165, 177: new_fields["roles"], sorted when the user exists
NormalizeSubmitted(existing, submitted_roles) ==
    IF existing = {} THEN submitted_roles ELSE SortRoles(submitted_roles)

\* the role object the backend returns for a role id
RoleObject(id) ==
    LET i == CHOOSE j \in 1..Len(SystemRoles) : SystemRoles[j].id = id IN
    SystemRoles[i]

\* the record the backend stores for submitted user fields
UserDefaults ==
    [first_name |-> "", last_name |-> "", is_superuser |-> "False"]

StoredUser(fields) ==
    [fields EXCEPT !["roles"] =
        [i \in 1..Len(fields["roles"]) |-> RoleObject(fields["roles"][i])]]

\* create_or_update_if_needed: what to do with the user (lines 181-187)
UserDecision(existing, nf) ==
    IF existing = {} THEN "user_create"
    ELSE IF NeedsPatch(TheItem(existing), nf) THEN "user_update"
    ELSE "done"

\* lines 126-149: look the user up, leave for state=absent, start new_fields
UserLookup(p) ==
    /\ pc[p] = "user_lookup"
    /\ LET found == FindUser(users, params[p].username) IN
       /\ calls' = Log(p, Call("GET", "users", 0, EmptyDict, TRUE))
       /\ existing_item' = Upd(existing_item, p, found)
       /\ IF params[p].state = "absent"
          THEN /\ pc' = Upd(pc, p, IF found = {} THEN "done" ELSE "user_absent_delete")
               /\ result' = Upd(result, p, exit_json(result[p], FALSE))
               /\ UNCHANGED new_fields
          ELSE /\ pc' = Upd(pc, p, "user_roles")
               /\ new_fields' = Upd(new_fields, p,
                    CopyFields(
                      Put(EmptyDict, "username",
                          SubmittedUsername(params[p].new_username, found,
                                            params[p].username)),
                      params[p],
                      {"first_name", "last_name", "password", "is_superuser"}))
               /\ UNCHANGED result
    /\ UNCHANGED <<module, activations, extra_vars, users, nextId, invCount,
                   params, snap, prev, same>>

\* line 135: state=absent and the user exists
UserAbsentDelete(p) ==
    /\ pc[p] = "user_absent_delete"
    /\ LET item == TheItem(existing_item[p])
           there == \E u \in users : u.id = item.id IN
       /\ calls' = Log(p, Call("DELETE", "users", item.id, EmptyDict, there))
       /\ users' = {u \in users : u.id # item.id}
       /\ result' = Upd(result, p,
                        IF there THEN exit_json(result[p], TRUE)
                        ELSE fail_json(result[p], "delete_failed"))
    /\ pc' = Upd(pc, p, "done")
    /\ UNCHANGED <<module, activations, extra_vars, nextId, invCount, params,
                   existing_item, new_fields, snap, prev, same>>

\* lines 153-187 up to the request: resolve the roles, normalise, compare
UserGetRoles(p) ==
    /\ pc[p] = "user_roles"
    /\ LET r == SubmittedRoles(SystemRoles, params[p].roles) IN
       /\ calls' = Log(p, Call("GET", "roles", 0, EmptyDict, TRUE))
       /\ IF ~r.ok
          THEN /\ result' = Upd(result, p, fail_json(result[p], "Unable to find role"))
               /\ pc' = Upd(pc, p, "done")
               /\ UNCHANGED <<existing_item, new_fields>>
          ELSE LET ex == NormalizeExisting(existing_item[p])
                   nf == Put(new_fields[p], "roles",
                             NormalizeSubmitted(existing_item[p], r.ids)) IN
               /\ existing_item' = Upd(existing_item, p, ex)
               /\ new_fields' = Upd(new_fields, p, nf)
               /\ pc' = Upd(pc, p, UserDecision(ex, nf))
               /\ result' = Upd(result, p, exit_json(result[p], FALSE))
    /\ UNCHANGED <<module, activations, extra_vars, users, nextId, invCount,
                   params, snap, prev, same>>

\* create_or_update_if_needed, no existing item: POST users
UserCreate(p) ==
    /\ pc[p] = "user_create"
    /\ LET clash == Conflict(users, "username", new_fields[p]["username"], 0) IN
       /\ calls' = Log(p, Call("POST", "users", IF clash THEN 0 ELSE nextId,
                               new_fields[p], ~clash))
       /\ IF clash
          THEN /\ result' = Upd(result, p, fail_json(result[p], "conflict"))
               /\ UNCHANGED <<users, nextId>>
          ELSE /\ users' = users \cup
                     {Put(StoredUser(Merge(UserDefaults, new_fields[p])), "id", nextId)}
               /\ nextId' = nextId + 1
               /\ result' = Upd(result, p, exit_json(result[p], TRUE))
    /\ pc' = Upd(pc, p, "done")
    /\ UNCHANGED <<module, activations, extra_vars, invCount, params, existing_item,
                   new_fields, snap, prev, same>>

\* create_or_update_if_needed, existing item differs: PATCH users/<id>
UserUpdate(p) ==
    /\ pc[p] = "user_update"
    /\ LET id == TheItem(existing_item[p]).id
           there == \E u \in users : u.id = id
           clash == Conflict(users, "username", new_fields[p]["username"], id)
           ok == there /\ ~clash IN
       /\ calls' = Log(p, Call("PATCH", "users", id, new_fields[p], ok))
       /\ IF ok
          THEN /\ users' = {IF u.id = id THEN StoredUser(Merge(u, new_fields[p])) ELSE u :
                              u \in users}
               /\ result' = Upd(result, p, exit_json(result[p], TRUE))
          ELSE /\ UNCHANGED users
               /\ result' = Upd(result, p,
                     fail_json(result[p], IF there THEN "conflict" ELSE "not_found"))
    /\ pc' = Upd(pc, p, "done")
    /\ UNCHANGED <<module, activations, extra_vars, nextId, invCount, params,
                   existing_item, new_fields, snap, prev, same>>

----------------------------------------------------------------------------
(* Specifications *)

ParamsOf(m) == IF m = "user" THEN UserParams ELSE ActivationParams

\* the automation engine runs the module with some parameters
Invoke(p) == \E prm \in ParamsOf(module) : Start(p, prm)

Step(p) ==
    \/ ActLookup(p)
    \/ ActAbsentDelete(p)
    \/ ActResolveProject(p)
    \/ ActResolveDecisionEnvironment(p)
    \/ ActResolveRulebook(p)
    \/ ActRecreateDelete(p)
    \/ ActCreateExtraVars(p)
    \/ ActCreate(p)
    \/ UserLookup(p)
    \/ UserAbsentDelete(p)
    \/ UserGetRoles(p)
    \/ UserCreate(p)
    \/ UserUpdate(p)

\* one invocation after the other
Next == \E p \in SeqProcs : Invoke(p) \/ Step(p)

Spec == Init /\ [][Next]_vars

\* two invocations of the module against the same key, run concurrently
ConcParams(m) ==
    {prm \in ParamsOf(m) :
        /\ KeyOf(prm) \in {"a1", "u1"}
        /\ prm.state = "absent" \/
             /\ "roles" \in DOMAIN prm => prm.roles \in {<<"A">>, <<"A", "B">>}
             /\ "roles" \in DOMAIN prm => prm.new_username = NoVal /\ prm.first_name = NoVal
             /\ "project" \in DOMAIN prm =>
                   /\ prm.project = "p1" /\ prm.rulebook = "rb"
                   /\ prm.decision_environment = "de" /\ prm.new_name = NoVal}

InvokeConc(p) == \E prm \in ConcParams(module) : Start(p, prm)

NextConc == \E p \in Procs : InvokeConc(p) \/ Step(p)

SpecConc == Init /\ [][NextConc]_vars

----------------------------------------------------------------------------
(* Vocabulary of the properties.  In Spec the invocations run one after    *)
(* the other in slot 1.                                                    *)

IsUser == module = "user"
IsActivation == module = "rulebook_activation"
Done == pc[1] = "done"
Present == params[1].state = "present"
Absent == params[1].state = "absent"
Failed == result[1].failed
Changed == result[1].changed
Mut == Mutating(calls[1])

\* the (operation, endpoint) pairs of a call log
Ops(log) == [i \in 1..Len(log) |-> <<log[i].op, log[i].endpoint>>]

\* the resource that had the invocation's key when the invocation started
Original ==
    IF IsUser THEN {u \in snap[1][3] : u.username = params[1].username}
    ELSE {a \in snap[1][1] : a.name = params[1].name}

NameCount(collection, name) == Cardinality({o \in collection : o.name = name})

\* every reference of the activation parameters names exactly one object
RefsResolve(prm) ==
    /\ NameCount(Projects, prm.project) = 1
    /\ NameCount(DecisionEnvironments, prm.decision_environment) = 1
    /\ \E pr \in Projects :
          /\ pr.name = prm.project
          /\ Cardinality({r \in Rulebooks :
                            r.name = prm.rulebook /\ r.project_id = pr.id}) = 1

\* every selected role name is the name of some system role
RolesResolve(prm) ==
    \A i \in 1..Len(prm.roles) :
        \E j \in 1..Len(SystemRoles) : SystemRoles[j].name = prm.roles[i]

Resolves(prm) == IF IsUser THEN RolesResolve(prm) ELSE RefsResolve(prm)

\* the calls a delete-and-recreate of an activation consists of
RecreateOps(variables) ==
    <<(<<"DELETE", "activations">>)>>
    \o (IF variables # NoVal THEN <<(<<"POST", "extra-vars">>)>> ELSE <<>>)
    \o <<(<<"POST", "activations">>)>>

KeyField == IF IsUser THEN "username" ELSE "name"
NewKey == IF IsUser THEN params[1].new_username ELSE params[1].new_name
OldKey == KeyOf(params[1])

\* the parameters ask for the resource under another key than the lookup key
AsksRename == NewKey # NoVal /\ NewKey # OldKey

\* the second of two successive state=present invocations with identical
\* parameters whose references resolve, the first of which found no resource
\* with the key
SecondIdentical ==
    /\ Done /\ Present
    /\ same[1] /\ prev[1].valid /\ prev[1].fresh
    /\ Resolves(params[1])

\* the calls of a create that the controller rejects
RejectedCreateOps(variables) ==
    (IF IsActivation /\ variables # NoVal
     THEN <<(<<"POST", "extra-vars">>)>> ELSE <<>>)
    \o <<(<<"POST", IF IsUser THEN "users" ELSE "activations">>)>>

----------------------------------------------------------------------------
(* C1 *)

\* C1 as stated: for both resource types, reconciling twice in succession
\* with identical state=present parameters from a backend without the
\* resource reports changed=true and then changed=false, the second
\* invocation issuing no create, update or delete.
C1_IdempotentAllTypes ==
    SecondIdentical =>
        /\ prev[1].changed
        /\ ~Changed
        /\ Mut = <<>>

\* C1 amended: with references that resolve and no new key other than the
\* key, the first invocation succeeds with changed=true; for a user the
\* second succeeds with changed=false, no mutating call and the backend as
\* found; for a rulebook activation the second succeeds with changed=true
\* again, deleting the activation and creating it anew.  With a new key
\* other than the key the second invocation again finds nothing under the
\* key, issues the create for the new key once more, is rejected as a
\* conflict and fails, leaving the users and activations as found.
C1_IdempotentUserRecreateActivation ==
    SecondIdentical =>
        IF AsksRename
        THEN /\ Failed /\ ~Changed
             /\ result[1].msg = "conflict"
             /\ Original = {}
             /\ Ops(Mut) = RejectedCreateOps(IF IsUser THEN NoVal
                                             ELSE params[1].variables)
             /\ ~Mut[Len(Mut)].ok
             /\ Mut[Len(Mut)].data[KeyField] = NewKey
             /\ users = snap[1][3]
             /\ activations = snap[1][1]
        ELSE /\ prev[1].changed /\ ~prev[1].failed
             /\ ~Failed
             /\ IsUser => ~Changed /\ Mut = <<>> /\ backend = snap[1]
             /\ IsActivation =>
                   /\ Changed
                   /\ Ops(Mut) = RecreateOps(params[1].variables)

C1_Witness ==
    /\ SecondIdentical /\ ~AsksRename /\ IsUser /\ ~Changed /\ ~Failed
    /\ prev[1].changed
    /\ Len(params[1].roles) = 2

----------------------------------------------------------------------------
(* C2 *)

\* C2: state=absent without a resource of that key reports changed=false and
\* issues no mutating call; with one it issues exactly one delete, of that
\* resource, reports changed=true, and a lookup by the key then finds nothing.
C2_AbsentConverges ==
    (Done /\ Absent) =>
        IF Original = {}
        THEN ~Changed /\ ~Failed /\ Mut = <<>> /\ backend = snap[1]
        ELSE /\ Changed /\ ~Failed
             /\ Len(Mut) = 1
             /\ Mut[1].op = "DELETE"
             /\ Mut[1].id = TheItem(Original).id
             /\ IF IsUser THEN FindUser(users, params[1].username) = {}
                ELSE get_one(activations, params[1].name, EmptyDict).item = {}

C2_Witness ==
    /\ Done /\ Absent /\ Original # {} /\ Changed /\ IsUser

----------------------------------------------------------------------------
(* C3 *)

\* C3: a state=present run of rulebook_activation whose references resolve
\* and that finds an existing activation never issues an update; it warns,
\* deletes the existing activation and only then creates, and the activation
\* it leaves has another identifier than the original.
C3_RecreateNotUpdate ==
    (IsActivation /\ Present) =>
        /\ \A i \in 1..Len(calls[1]) : calls[1][i].op # "PATCH"
        /\ (Done /\ Original # {} /\ RefsResolve(params[1])) =>
              /\ result[1].warned
              /\ Ops(Mut) = RecreateOps(params[1].variables)
              /\ Mut[1].id = TheItem(Original).id
              /\ \A a \in activations : a.id # TheItem(Original).id
              /\ ~Failed =>
                    \E a \in activations :
                        /\ a.id = Mut[Len(Mut)].id
                        /\ a.name = new_fields[1]["name"]
                        /\ a.id # TheItem(Original).id

C3_Witness ==
    /\ IsActivation /\ Present /\ Done /\ Original # {} /\ ~Failed
    /\ params[1].variables # NoVal
    /\ Changed

----------------------------------------------------------------------------
(* C4 *)

\* C4: a state=present invocation one of whose references does not resolve
\* never issues a mutating call, leaves the backend as it found it, and
\* ends in failure.
C4_ResolverFailureBeforeWrite ==
    (pc[1] # "idle" /\ Present /\ ~Resolves(params[1])) =>
        /\ Mut = <<>>
        /\ backend = snap[1]
        /\ Done => Failed /\ ~Changed

C4_Witness ==
    /\ Done /\ Present /\ ~Resolves(params[1]) /\ Failed
    /\ Original # {}

----------------------------------------------------------------------------
(* C5 *)

\* C5: with variables supplied, the create on extra-vars has completed before
\* the create on activations is issued, the activation payload carries the
\* identifier that create returned, and the activation is never patched.
C5_ExtraVarsBeforeActivation ==
    (IsActivation /\ Present /\ params[1].variables # NoVal) =>
        \A i \in 1..Len(calls[1]) :
            /\ ~(calls[1][i].endpoint = "activations" /\ calls[1][i].op = "PATCH")
            /\ (calls[1][i].endpoint = "activations" /\ calls[1][i].op = "POST") =>
                  /\ \E j \in 1..(i - 1) :
                        /\ calls[1][j].endpoint = "extra-vars"
                        /\ calls[1][j].op = "POST"
                        /\ calls[1][j].ok
                        /\ Has(calls[1][i].data, "extra_var_id")
                        /\ calls[1][i].data["extra_var_id"] = calls[1][j].id
                        /\ \E e \in extra_vars : e["id"] = calls[1][j].id
                  /\ \A j \in (i + 1)..Len(calls[1]) : ~IsMutating(calls[1][j])

C5_Witness ==
    /\ IsActivation /\ Present /\ params[1].variables # NoVal
    /\ Done /\ ~Failed /\ Changed
    /\ \E a \in activations : a.extra_var_id # 0

----------------------------------------------------------------------------
(* C6 *)

Collection == IF IsUser THEN users ELSE activations
CollectionAtStart == IF IsUser THEN snap[1][3] ELSE snap[1][1]
WithKey(collection, k) == {o \in collection : o[KeyField] = k}

\* a completed state=present run that renames an existing resource
Renaming ==
    /\ Done /\ Present
    /\ NewKey # NoVal /\ NewKey # OldKey
    /\ Original # {}
    /\ Resolves(params[1])

\* the payload carries the new key, the first mutating call is aimed at the
\* existing resource, and the backend then holds no resource under the old
\* key and exactly one under the new key
RenameOutcome ==
    /\ Mut # <<>>
    /\ Mut[Len(Mut)].op \in {"POST", "PATCH"}
    /\ Mut[Len(Mut)].data[KeyField] = NewKey
    /\ Mut[1].op \in {"PATCH", "DELETE"}
    /\ Mut[1].id = TheItem(Original).id
    /\ WithKey(Collection, OldKey) = {}
    /\ Cardinality(WithKey(Collection, NewKey)) = 1

\* without a new key the submitted key is the existing resource's key, or
\* the desired key when there is no existing resource
KeptKey ==
    (Present /\ NewKey = NoVal /\ Has(new_fields[1], KeyField)) =>
        new_fields[1][KeyField] =
            IF Original # {} THEN TheItem(Original)[KeyField] ELSE OldKey

\* C6 as stated: a rename of an existing resource submits the new key,
\* mutates the existing resource, and leaves no resource with the old key
\* and exactly one with the new key.
C6_RenameAlways ==
    /\ Renaming => RenameOutcome
    /\ KeptKey

\* C6 amended: the same, provided no other resource holds the new key when
\* the invocation starts; the invocation then succeeds with changed=true.
C6_RenameToFreeKey ==
    /\ (Renaming /\ WithKey(CollectionAtStart, NewKey) = {}) =>
          RenameOutcome /\ ~Failed /\ Changed
    /\ KeptKey

C6_Witness ==
    /\ Renaming /\ WithKey(CollectionAtStart, NewKey) = {}
    /\ IsUser /\ Mut[1].op = "PATCH"

----------------------------------------------------------------------------
(* C7 *)

Occurrences(s, x) == Cardinality({i \in 1..Len(s) : s[i] = x})

IsPermutation(s, t) ==
    /\ Len(s) = Len(t)
    /\ \A x \in Range(s) \cup Range(t) : Occurrences(s, x) = Occurrences(t, x)

IsSorted(s) == \A i \in 1..(Len(s) - 1) : s[i] <= s[i + 1]

DesiredRoleIds == SubmittedRoles(SystemRoles, params[1].roles).ids

\* a completed state=present run on a user whose roles are the desired ones
\* in some order and whose other submitted fields are as desired
SameRolesAnyOrder ==
    /\ IsUser /\ Done /\ Present
    /\ Original # {}
    /\ RolesResolve(params[1])
    /\ IsPermutation(FlattenRoles(TheItem(Original).roles), DesiredRoleIds)
    /\ params[1].new_username \in {NoVal, TheItem(Original).username}
    /\ params[1].first_name \in {NoVal, TheItem(Original).first_name}
    /\ params[1].password = TheItem(Original).password

\* C7: the existing role objects are flattened to identifiers, both lists are
\* sorted, and an existing user whose roles are the desired ones in any order
\* is left unchanged, without an update call.
C7_RoleOrderIgnored ==
    SameRolesAnyOrder =>
        /\ ~Changed /\ ~Failed
        /\ Mut = <<>>
        /\ backend = snap[1]
        /\ IsSorted(new_fields[1]["roles"])
        /\ TheItem(existing_item[1]).roles = new_fields[1]["roles"]

C7_Witness ==
    /\ SameRolesAnyOrder
    /\ FlattenRoles(TheItem(Original).roles) # DesiredRoleIds
    /\ ~Changed

----------------------------------------------------------------------------
(* C8 *)

\* every reference names exactly one object of its collection (the rulebook
\* within the resolved project)
ExactlyOneMatch(prm) ==
    IF IsUser
    THEN \A i \in 1..Len(prm.roles) :
            Cardinality({j \in 1..Len(SystemRoles) :
                           SystemRoles[j].name = prm.roles[i]}) = 1
    ELSE RefsResolve(prm)

\* C8: a state=present invocation one of whose references matches no object
\* or more than one object ends in failure.
C8_ResolutionFailsLoudly ==
    (Done /\ Present /\ ~ExactlyOneMatch(params[1])) => Failed

----------------------------------------------------------------------------
(* C9 *)

\* C9: the rulebook lookup comes after a successful project lookup and is
\* filtered by the project identifier that lookup returned; a rulebook name
\* shared between projects resolves to the rulebook of the requested project
\* instead of failing.
C9_RulebookScopedToProject ==
    (IsActivation /\ Present) =>
        /\ \A i \in 1..Len(calls[1]) :
              calls[1][i].endpoint = "rulebooks" =>
                 \E j \in 1..(i - 1) :
                    /\ calls[1][j].endpoint = "projects"
                    /\ calls[1][j].ok
                    /\ Has(calls[1][i].data, "project_id")
                    /\ calls[1][i].data["project_id"] = calls[1][j].id
        /\ Has(new_fields[1], "rulebook_id") =>
              \E r \in Rulebooks :
                 /\ r.id = new_fields[1]["rulebook_id"]
                 /\ r.name = params[1].rulebook
                 /\ r.project_id = new_fields[1]["project_id"]
        /\ (Done /\ RefsResolve(params[1])) =>
              /\ result[1].msg \notin {"ambiguous", "not_found"}
              /\ Has(new_fields[1], "rulebook_id")

C9_Witness ==
    /\ IsActivation /\ Present /\ Done
    /\ params[1].project = "p2" /\ params[1].rulebook = "rb"
    /\ NameCount(Rulebooks, "rb") = 2
    /\ Has(new_fields[1], "rulebook_id")
    /\ new_fields[1]["rulebook_id"] = 2

----------------------------------------------------------------------------
(* C10, under SpecConc *)

Running(p) == pc[p] \notin {"idle", "done"}

\* C10: no lock and no concurrency token: an invocation can start whatever
\* the other invocation is doing, and a running invocation can always take
\* its next step, with the item it fetched at its start.
C10_Unguarded ==
    \A p \in Procs :
        /\ (~Running(p) /\ invCount < MaxInv) => ENABLED InvokeConc(p)
        /\ Running(p) => ENABLED Step(p)

\* both invocations fetched before either mutated, both saw no resource with
\* the key, and both issued a create for the same key
C10_Witness ==
    /\ pc[1] = "done" /\ pc[2] = "done"
    /\ params[1].state = "present" /\ params[2].state = "present"
    /\ KeyOf(params[1]) = KeyOf(params[2])
    /\ snap[1] = snap[2]
    /\ existing_item[1] = {} /\ existing_item[2] = {}
    /\ \A p \in Procs :
          /\ KeyAbsent(snap[p], params[p])
          /\ Mutating(calls[p]) # <<>>
          /\ LET c == Mutating(calls[p])[Len(Mutating(calls[p]))] IN
             c.op = "POST" /\ c.endpoint \in {"users", "activations"}
    /\ \E p \in Procs : result[p].changed
    /\ \E p \in Procs : result[p].failed /\ result[p].msg = "conflict"

====
